---- MODULE Spec2Model ----
(***************************************************************************)
(* A model of the two MCP adapter servers of this repository:              *)
(*   azure_search_server.py            keyword / vector / hybrid search    *)
(*   azure_ai_agent_service_server.py  search_index / web_search (agents)  *)
(* Each server is one process: it reads its environment, tries to build    *)
(* its client wrapper once, and then serves tool calls one at a time.      *)
(*                                                                         *)
(* Text is a sequence of string tokens (a literal of the source is one     *)
(* token, a character of a document chunk is one token); f-strings and     *)
(* += become concatenation of such sequences.                              *)
(***************************************************************************)
EXTENDS Integers, Sequences, FiniteSets, TLC

VARIABLES server, env, client, initError, sLast, aLast,
          agentsCreated, agentsDeleted, threadsCreated

vars == <<server, env, client, initError, sLast, aLast,
          agentsCreated, agentsDeleted, threadsCreated>>

\* ------------------------------------------------------------------ bounds

\* The longest list of records a remote search hands back in the model.
MaxHits == 3
\* The largest value of the tools' top argument in the model.
MaxTop == 3
\* The most agents one modelled run of the agent server creates.
MaxAgents == 3

\* ------------------------------------------------------- general helpers

Min(a, b) == IF a <= b THEN a ELSE b

Take(s, n) == SubSeq(s, 1, Min(n, Len(s)))

Range(s) == {s[i] : i \in 1..Len(s)}

DigitChars == <<"0", "1", "2", "3", "4", "5", "6", "7", "8", "9">>

\* str(n) of a natural number, as the tokens of its decimal digits.
RECURSIVE ToStr(_)
ToStr(n) == IF n < 10 THEN <<DigitChars[n + 1]>>
            ELSE ToStr(n \div 10) \o <<DigitChars[(n % 10) + 1]>>

\* ", ".join(names)
RECURSIVE Join(_)
Join(names) == IF names = <<>> THEN <<>>
               ELSE IF Len(names) = 1 THEN <<names[1]>>
               ELSE <<names[1], ", ">> \o Join(Tail(names))

\* A Python value that may be absent: tag "missing" (the key is not in the
\* dict), "none" (the key holds None) or "val" (v is the value).
Missing(blank) == [tag |-> "missing", v |-> blank]
None(blank) == [tag |-> "none", v |-> blank]
Val(x) == [tag |-> "val", v |-> x]

\* dict.get(key, default): the default only when the key is missing.
Get(field, default) == IF field.tag = "missing" THEN Val(default) ELSE field

\* Outcomes of a Python call: a returned value or a raised exception whose
\* str() is the text fault.
Return(x) == [kind |-> "return", value |-> x, fault |-> <<>>]
Raise(blank, text) == [kind |-> "raise", value |-> blank, fault |-> text]

\* ----------------------------------------------------------- environment

SearchRead == <<"AZURE_SEARCH_SERVICE_ENDPOINT", "AZURE_SEARCH_INDEX_NAME",
                "AZURE_SEARCH_API_KEY">>

AgentRead == <<"PROJECT_CONNECTION_STRING", "MODEL_DEPLOYMENT_NAME",
               "AI_SEARCH_CONNECTION_NAME", "BING_CONNECTION_NAME",
               "AI_SEARCH_INDEX_NAME">>

\* The names a server reads from its environment, all of them required.
RequiredVars(srv) == IF srv = "search" THEN Range(SearchRead)
                     ELSE Range(AgentRead)

\* The part of a process's environment that matters: each name the server
\* reads is absent, empty or set.
EnvNames(srv) == RequiredVars(srv)

EnvStates == {"absent", "empty", "set"}

\* os.getenv(name): None when absent, "" when empty; `not value` is true of
\* both.
Falsy(e, name) == e[name] \in {"absent", "empty"}

\* The missing list AzureSearchClient.__init__ builds, in its order.
SearchMissing(e) ==
    (IF Falsy(e, "AZURE_SEARCH_SERVICE_ENDPOINT")
        THEN <<"AZURE_SEARCH_SERVICE_ENDPOINT">> ELSE <<>>)
    \o (IF Falsy(e, "AZURE_SEARCH_INDEX_NAME")
        THEN <<"AZURE_SEARCH_INDEX">> ELSE <<>>)
    \o (IF Falsy(e, "AZURE_SEARCH_API_KEY")
        THEN <<"AZURE_SEARCH_API_KEY">> ELSE <<>>)

\* [k for k, v in required_vars.items() if not v], up to the first n keys.
RECURSIVE AgentMissingUpTo(_, _)
AgentMissingUpTo(e, n) ==
    IF n = 0 THEN <<>>
    ELSE AgentMissingUpTo(e, n - 1)
         \o (IF Falsy(e, AgentRead[n]) THEN <<AgentRead[n]>> ELSE <<>>)

AgentMissing(e) == AgentMissingUpTo(e, Len(AgentRead))

MissingErrorMsg(missing) ==
    <<"Missing environment variables: ">> \o Join(missing)

\* Mutant of SearchClientInit: the validation forgets the API key.
SearchClientInit_SkipsApiKey(e) ==
    IF Falsy(e, "AZURE_SEARCH_SERVICE_ENDPOINT") \/ Falsy(e, "AZURE_SEARCH_INDEX_NAME")
    THEN Raise("none", MissingErrorMsg(SearchMissing(e)))
    ELSE Return("ready")

\* AzureSearchClient.__init__: raises ValueError(error_msg) when a value is
\* falsy, else builds the SDK client.
SearchClientInit(e) ==
    IF \E i \in 1..Len(SearchRead) : Falsy(e, SearchRead[i])
    THEN Raise("none", MissingErrorMsg(SearchMissing(e)))
    ELSE Return("ready")

\* An exception the vendor SDK or the remote service raises, as its str().
SdkFault == <<"HttpResponseError: service unavailable">>

\* AzureAIAgentClient.__init__: raises ValueError(error_msg) when a value is
\* falsy; AIProjectClient.from_connection_string may raise too (sdkOk is
\* FALSE), and that exception is re-raised.
AgentClientInit(e, sdkOk) ==
    IF AgentMissing(e) # <<>>
    THEN Raise("none", MissingErrorMsg(AgentMissing(e)))
    ELSE IF ~sdkOk THEN Raise("none", SdkFault)
    ELSE Return("ready")

\* The module-level try/except around the wrapper's construction: the
\* handle is the wrapper, or None when construction raised. The second
\* component is the error text the constructor raised (written to stderr).
InitializeClient(srv, e, sdkOk) ==
    LET r == IF srv = "search" THEN SearchClientInit(e)
             ELSE AgentClientInit(e, sdkOk)
    IN IF r.kind = "raise" THEN <<"none", r.fault>> ELSE <<r.value, <<>>>>

\* --------------------------------------------------- search server: data

\* [:1000] in _format_results.
ContentLimit == 1000

\* k_nearest_neighbors=50 in vector_search and hybrid_search.
KNearest == 50

Alphabet == <<"a", "b", "c">>

\* A document chunk of n characters.
Chars(n) == [i \in 1..n |-> Alphabet[(i % 3) + 1]]

\* A record of the remote index: the keys title, chunk and @search.score,
\* each missing, None or a value (a score is in hundredths).
RemoteRecord(t, c, s) == [title |-> t, chunk |-> c, score |-> s]

RecordPool ==
    { RemoteRecord(Val("Laptop"), Val(Chars(3)), Val(150)),
      RemoteRecord(Missing(""), Missing(<<>>), Missing(0)),
      RemoteRecord(Val("Tablet"), Val(Chars(ContentLimit + 1)), Val(1275)),
      RemoteRecord(Val("Phone"), Val(Chars(ContentLimit)), None(0)),
      RemoteRecord(None(""), None(<<>>), Val(7)) }

RECURSIVE SeqsUpTo(_, _)
SeqsUpTo(S, n) ==
    IF n = 0 THEN {<<>>}
    ELSE LET shorter == SeqsUpTo(S, n - 1)
         IN shorter \cup {Append(q, x) : q \in shorter, x \in S}

\* The lists of matching records a remote index may hold for a query.
MatchLists == SeqsUpTo(RecordPool, MaxHits)

Queries == {"laptop", "current weather in Paris"}

Tops == 0..MaxTop

\* What the remote service does with one search request: it raises, or it
\* hands back its matches, cut to the requested top when it applies top.
RemoteSearch(request, remote) ==
    IF remote.fails THEN Raise(<<>>, SdkFault)
    ELSE IF remote.appliesTop THEN Return(Take(remote.matches, request.top))
    ELSE Return(remote.matches)

RemoteBehaviours ==
    [matches : MatchLists, appliesTop : BOOLEAN, fails : {FALSE}]
    \cup [matches : {<<>>}, appliesTop : {TRUE}, fails : {TRUE}]

\* ------------------------------------------------ search server: wrapper

VectorQuery(query, field) ==
    [text |-> query, k_nearest_neighbors |-> KNearest, fields |-> field]

\* Mutant of KeywordRequest: the caller's top is not passed on (the
\* signature's default 5 is sent instead).
KeywordRequest_DefaultTop(query, top) ==
    [search_text |-> Val(query), vector_queries |-> <<>>, top |-> 5,
     select |-> <<"title", "chunk">>]

KeywordRequest(query, top) ==
    [search_text |-> Val(query), vector_queries |-> <<>>, top |-> top,
     select |-> <<"title", "chunk">>]

\* Mutant of VectorRequest: the number of neighbours follows top.
VectorRequest_KFromTop(query, top, field) ==
    [search_text |-> Missing(""),
     vector_queries |-> <<[text |-> query, k_nearest_neighbors |-> top * 10,
                           fields |-> field]>>,
     top |-> top, select |-> <<"title", "chunk">>]

VectorRequest(query, top, field) ==
    [search_text |-> Missing(""),
     vector_queries |-> <<VectorQuery(query, field)>>, top |-> top,
     select |-> <<"title", "chunk">>]

HybridRequest(query, top, field) ==
    [search_text |-> Val(query),
     vector_queries |-> <<VectorQuery(query, field)>>, top |-> top,
     select |-> <<"title", "chunk">>]

\* Mutant of FormatItem: the content is not cut.
FormatItem_NoLimit(result) ==
    LET chunk == Get(result.chunk, <<>>)
    IN IF chunk.tag = "none"
       THEN Raise([title |-> None(""), content |-> <<>>, score |-> None(0)],
                  <<"'NoneType' object is not subscriptable">>)
       ELSE Return([title |-> Get(result.title, "Unknown"),
                    content |-> chunk.v,
                    score |-> Get(result.score, 0)])

\* One item of _format_results; result.get("chunk", "")[:1000] raises a
\* TypeError when the chunk is None.
FormatItem(result) ==
    LET chunk == Get(result.chunk, <<>>)
    IN IF chunk.tag = "none"
       THEN Raise([title |-> None(""), content |-> <<>>, score |-> None(0)],
                  <<"'NoneType' object is not subscriptable">>)
       ELSE Return([title |-> Get(result.title, "Unknown"),
                    content |-> Take(chunk.v, ContentLimit),
                    score |-> Get(result.score, 0)])

\* AzureSearchClient._format_results: one item per remote record, in order;
\* the first record that raises ends the loop.
RECURSIVE FormatResults(_)
FormatResults(results) ==
    IF results = <<>> THEN Return(<<>>)
    ELSE LET n == Len(results)
             before == FormatResults(SubSeq(results, 1, n - 1))
             item == FormatItem(results[n])
         IN IF before.kind = "raise" THEN before
            ELSE IF item.kind = "raise" THEN Raise(<<>>, item.fault)
            ELSE Return(Append(before.value, item.value))

\* Mutant of WrapperSearch: a request that raised is issued a second time.
WrapperSearch_RetryOnce(request, remote) ==
    LET resp == RemoteSearch(request, remote)
    IN [requests |-> IF resp.kind = "raise" THEN <<request, request>>
                     ELSE <<request>>,
        response |-> resp.value,
        out |-> IF resp.kind = "raise" THEN Raise(<<>>, resp.fault)
                ELSE FormatResults(resp.value)]

\* The three wrapper methods: build the request, issue it once, format what
\* comes back. Each yields the requests issued and the method's outcome.
WrapperSearch(request, remote) ==
    LET resp == RemoteSearch(request, remote)
    IN [requests |-> <<request>>,
        response |-> resp.value,
        out |-> IF resp.kind = "raise" THEN Raise(<<>>, resp.fault)
                ELSE FormatResults(resp.value)]

ClientKeywordSearch(query, top, remote) ==
    WrapperSearch(KeywordRequest(query, top), remote)

ClientVectorSearch(query, top, field, remote) ==
    WrapperSearch(VectorRequest(query, top, field), remote)

ClientHybridSearch(query, top, field, remote) ==
    WrapperSearch(HybridRequest(query, top, field), remote)

\* ---------------------------------------------- search server: renderer

\* f"{score:.2f}" of a score given in hundredths.
Fmt2(score) ==
    ToStr(score \div 100)
    \o <<".", DigitChars[((score \div 10) % 10) + 1], DigitChars[(score % 10) + 1]>>

\* str() of a title inside an f-string.
TitleText(title) == IF title.tag = "none" THEN "None" ELSE title.v

\* The four += of one loop round of _format_results_as_markdown; the score
\* format raises a TypeError when the score is None.
Section(i, item) ==
    IF item.score.tag = "none"
    THEN Raise(<<>>, <<"unsupported format string passed to NoneType.__format__">>)
    ELSE Return(<<"### ">> \o ToStr(i) \o <<". ", TitleText(item.title), "\n">>
                \o <<"Score: ">> \o Fmt2(item.score.v) \o <<"\n\n">>
                \o item.content \o <<"\n\n">>
                \o <<"---\n\n">>)

RECURSIVE Sections(_, _)
Sections(results, n) ==
    IF n = 0 THEN Return(<<>>)
    ELSE LET before == Sections(results, n - 1)
             sec == Section(n, results[n])
         IN IF before.kind = "raise" THEN before
            ELSE IF sec.kind = "raise" THEN sec
            ELSE Return(before.value \o sec.value)

\* Mutant of FormatResultsAsMarkdown: no test for the empty sequence.
FormatResultsAsMarkdown_NoEmptyCheck(results, search_type) ==
    LET body == Sections(results, Len(results))
    IN IF body.kind = "raise" THEN body
       ELSE Return(<<"## ", search_type, " Results\n\n">> \o body.value)

FormatResultsAsMarkdown(results, search_type) ==
    IF results = <<>>
    THEN Return(<<"No results found for your query using ", search_type, ".">>)
    ELSE LET body == Sections(results, Len(results))
         IN IF body.kind = "raise" THEN body
            ELSE Return(<<"## ", search_type, " Results\n\n">> \o body.value)

\* ------------------------------------------------- search server: tools

SearchNotInitialized ==
    <<"Error: Azure Search client is not initialized. Check server logs for details.">>

NotCalled == [kind |-> "notcalled", value |-> <<>>, fault |-> <<>>]

\* Mutant of SearchToolBody: no except clause, a fault leaves the tool.
SearchToolBody_NoExcept(cl, w, search_type, operation) ==
    IF cl = "none"
    THEN [requests |-> <<>>, response |-> <<>>, wrapped |-> NotCalled,
          out |-> Return(SearchNotInitialized)]
    ELSE [requests |-> w.requests, response |-> w.response, wrapped |-> w.out,
          out |-> IF w.out.kind = "raise" THEN w.out
                  ELSE FormatResultsAsMarkdown(w.out.value, search_type)]

\* The body the three search tools share: the None guard, then the wrapper
\* call and the renderer inside try, and except Exception turning whatever
\* either raised into the error string.
SearchToolBody(cl, w, search_type, operation) ==
    IF cl = "none"
    THEN [requests |-> <<>>, response |-> <<>>, wrapped |-> NotCalled,
          out |-> Return(SearchNotInitialized)]
    ELSE LET md == IF w.out.kind = "raise" THEN w.out
                   ELSE FormatResultsAsMarkdown(w.out.value, search_type)
         IN [requests |-> w.requests, response |-> w.response,
             wrapped |-> w.out,
             out |-> IF md.kind = "raise"
                     THEN Return(<<"Error performing ", operation, ": ">> \o md.fault)
                     ELSE Return(md.value)]

KeywordSearchTool(cl, query, top, remote) ==
    SearchToolBody(cl, ClientKeywordSearch(query, top, remote),
                   "Keyword Search", "keyword search")

VectorSearchTool(cl, query, top, remote) ==
    SearchToolBody(cl, ClientVectorSearch(query, top, "text_vector", remote),
                   "Vector Search", "vector search")

HybridSearchTool(cl, query, top, remote) ==
    SearchToolBody(cl, ClientHybridSearch(query, top, "text_vector", remote),
                   "Hybrid Search", "hybrid search")

\* ---------------------------------------------------- agent server: data

\* The values the agent wrapper reads from its environment.
SearchConnectionName == "my-search-connection"
BingConnectionName == "my-bing-connection"
IndexName == "my-index"
ModelDeploymentName == "my-model"

\* What run.last_error may be when a run ends 'failed'.
RunErrors == {"rate limited", "server_error"}

NoMessage == [present |-> FALSE, texts |-> <<>>, citations |-> <<>>]

\* What get_last_message_by_role(MessageRole.AGENT) may return: None or a
\* message with text parts and url citation annotations.
AgentMessages ==
    { NoMessage,
      [present |-> TRUE, texts |-> <<"Paris is sunny.">>, citations |-> <<>>],
      [present |-> TRUE, texts |-> <<"First part.", "Second part.">>,
       citations |-> <<[title |-> "Weather", url |-> "https://example.com/w"]>>] }

Scenario(conn, failAt, status, err, msg) ==
    [conn |-> conn, failAt |-> failAt, status |-> status, last_error |-> err,
     message |-> msg]

\* What the remote service does during one agent call: the connection
\* lookup raises, finds nothing or finds the connection; one later
\* operation may raise; the run ends 'completed' or 'failed'.
Scenarios ==
    { Scenario(c, "none", "completed", "", NoMessage) : c \in {"raises", "nothing"} }
    \cup { Scenario("found", f, "completed", "", NoMessage) :
             f \in {"create_agent", "create_thread", "create_message",
                    "create_and_process_run", "list_messages"} }
    \cup { Scenario("found", "none", "failed", e, NoMessage) : e \in RunErrors }
    \cup { Scenario("found", f, "completed", "", m) :
             f \in {"none", "delete_agent"}, m \in AgentMessages }

\* ------------------------------------------------- agent server: wrapper

\* One operation issued to the remote service.
Op(name, agent, thread, text) ==
    [op |-> name, agent |-> agent, thread |-> thread, text |-> text]

\* result += text_message.text.value + "\n", for every text part.
RECURSIVE TextParts(_)
TextParts(texts) ==
    IF texts = <<>> THEN <<>>
    ELSE <<Head(texts), "\n">> \o TextParts(Tail(texts))

\* result += f"\nCitation: [{title}]({url})\n", for every annotation.
RECURSIVE CitationLines(_)
CitationLines(cs) ==
    IF cs = <<>> THEN <<>>
    ELSE <<"\nCitation: [", Head(cs).title, "](", Head(cs).url, ")\n">>
         \o CitationLines(Tail(cs))

ResponseText(msg) ==
    IF msg.present THEN TextParts(msg.texts) \o CitationLines(msg.citations)
    ELSE <<>>

AgentCallResult(out, log, created, deleted, threads) ==
    [out |-> out, log |-> log, created |-> created, deleted |-> deleted,
     threads |-> threads]

\* The body search_index and web_search share, statement by statement; p
\* holds what differs (connection name, agent name, instructions, tool,
\* failure prefix). agentId and threadId are the ids the service gives the next
\* agent and thread. Every exception is re-raised by the except clause.
AgentCall(p, query, agentId, threadId, sc) ==
    LET get == Op("connections.get", 0, 0, <<p.connection>>)
        mk == Op("create_agent", 0, 0,
                 <<ModelDeploymentName, p.name>> \o p.instructions \o p.tool)
        th == Op("create_thread", 0, 0, <<>>)
        msg == Op("create_message", 0, threadId, <<"user", query>>)
        run == Op("create_and_process_run", agentId, threadId, <<>>)
        lst == Op("list_messages", 0, threadId, <<"agent">>)
        del == Op("delete_agent", agentId, 0, <<>>)
    IN IF sc.conn = "raises"
       THEN AgentCallResult(Raise(<<>>, SdkFault), <<get>>, 0, 0, 0)
       ELSE IF sc.conn = "nothing"
       THEN AgentCallResult(
                Raise(<<>>, <<"Connection '", p.connection, "' not found">>),
                <<get>>, 0, 0, 0)
       ELSE IF sc.failAt = "create_agent"
       THEN AgentCallResult(Raise(<<>>, SdkFault), <<get, mk>>, 0, 0, 0)
       ELSE IF sc.failAt = "create_thread"
       THEN AgentCallResult(Raise(<<>>, SdkFault), <<get, mk, th>>, 1, 0, 0)
       ELSE IF sc.failAt = "create_message"
       THEN AgentCallResult(Raise(<<>>, SdkFault), <<get, mk, th, msg>>, 1, 0, 1)
       ELSE IF sc.failAt = "create_and_process_run"
       THEN AgentCallResult(Raise(<<>>, SdkFault),
                            <<get, mk, th, msg, run>>, 1, 0, 1)
       ELSE IF sc.status = "failed"
       THEN AgentCallResult(Return(<<p.failed, sc.last_error>>),
                            <<get, mk, th, msg, run>>, 1, 0, 1)
       ELSE IF sc.failAt = "list_messages"
       THEN AgentCallResult(Raise(<<>>, SdkFault),
                            <<get, mk, th, msg, run, lst>>, 1, 0, 1)
       ELSE IF sc.failAt = "delete_agent"
       THEN AgentCallResult(Raise(<<>>, SdkFault),
                            <<get, mk, th, msg, run, lst, del>>, 1, 0, 1)
       ELSE AgentCallResult(Return(ResponseText(sc.message)),
                            <<get, mk, th, msg, run, lst, del>>, 1, 1, 1)

\* Mutant of ClientSearchIndex: the `if not search_connection` test is
\* missing, so a connection that resolves to nothing is used as found.
ClientSearchIndex_NoConnectionCheck(query, top, agentId, threadId, sc) ==
    AgentCall([connection |-> SearchConnectionName,
               name |-> "search-agent",
               tool |-> <<"azure_ai_search", IndexName>>,
               instructions |-> <<"You are an Azure AI Search expert.", query>> \o ToStr(top),
               failed |-> "Search failed: "],
              query, agentId, threadId,
              [sc EXCEPT !.conn = IF @ = "nothing" THEN "found" ELSE @])

ClientSearchIndex(query, top, agentId, threadId, sc) ==
    AgentCall([connection |-> SearchConnectionName,
               name |-> "search-agent",
               tool |-> <<"azure_ai_search", IndexName>>,
               instructions |->
                   <<"You are an Azure AI Search expert. Use the Azure AI Search Tool to find the most relevant information for: '",
                     query, "'. Return only the top ">> \o ToStr(top)
                   \o <<" most relevant results. For each result, provide a title, content excerpt, and relevance score if available. Format your response as Markdown with each result clearly separated.">>,
               failed |-> "Search failed: "],
              query, agentId, threadId, sc)

\* Mutant of ClientWebSearch: the failure text of search_index is reused.
ClientWebSearch_WrongPrefix(query, agentId, threadId, sc) ==
    AgentCall([connection |-> BingConnectionName,
               name |-> "web-search-agent",
               tool |-> <<"bing_grounding">>,
               instructions |-> <<"You are a helpful web search assistant.", query>>,
               failed |-> "Search failed: "],
              query, agentId, threadId, sc)

ClientWebSearch(query, agentId, threadId, sc) ==
    AgentCall([connection |-> BingConnectionName,
               name |-> "web-search-agent",
               tool |-> <<"bing_grounding">>,
               instructions |->
                   <<"You are a helpful web search assistant. Use the Bing Web Grounding Tool to find the most current and accurate information for: '",
                     query,
                     "'. Provide a comprehensive answer with citations to sources. Format your response as Markdown.">>,
               failed |-> "Web search failed: "],
              query, agentId, threadId, sc)

\* --------------------------------------------------- agent server: tools

AgentNotInitialized ==
    <<"Error: Azure AI Agent client is not initialized. Check server logs for details.">>

\* The body the two agent tools share: the None guard, then the wrapper
\* call inside try with the heading put before its text, and except
\* Exception turning what it raised into the error string.
AgentToolBody(cl, w, heading, operation) ==
    IF cl = "none"
    THEN [log |-> <<>>, created |-> 0, deleted |-> 0, threads |-> 0,
          wrapped |-> NotCalled, out |-> Return(AgentNotInitialized)]
    ELSE [log |-> w.log, created |-> w.created, deleted |-> w.deleted,
          threads |-> w.threads, wrapped |-> w.out,
          out |-> IF w.out.kind = "raise"
                  THEN Return(<<"Error performing ", operation, ": ">> \o w.out.fault)
                  ELSE Return(<<heading>> \o w.out.value)]

SearchIndexTool(cl, query, top, agentId, threadId, sc) ==
    AgentToolBody(cl, ClientSearchIndex(query, top, agentId, threadId, sc),
                  "## Azure AI Search Results\n\n", "index search")

WebSearchTool(cl, query, agentId, threadId, sc) ==
    AgentToolBody(cl, ClientWebSearch(query, agentId, threadId, sc),
                  "## Bing Web Search Results\n\n", "web search")

\* ------------------------------------------------------------ the state

NoSearchCall ==
    [tool |-> "none", query |-> "", top |-> 0,
     remote |-> [matches |-> <<>>, appliesTop |-> TRUE, fails |-> FALSE],
     requests |-> <<>>, response |-> <<>>, wrapped |-> NotCalled,
     out |-> NotCalled]

SearchCall(tool, query, top, remote, r) ==
    [tool |-> tool, query |-> query, top |-> top, remote |-> remote,
     requests |-> r.requests, response |-> r.response,
     wrapped |-> r.wrapped, out |-> r.out]

NoScenario == Scenario("none", "none", "none", "", NoMessage)

NoAgentCall ==
    [tool |-> "none", query |-> "", top |-> 0, scenario |-> NoScenario,
     agentId |-> 0, threadId |-> 0, log |-> <<>>, created |-> 0,
     deleted |-> 0, threads |-> 0, wrapped |-> NotCalled, out |-> NotCalled]

AgentCallRecord(tool, query, top, agentId, threadId, sc, r) ==
    [tool |-> tool, query |-> query, top |-> top,
     scenario |-> sc,
     agentId |-> agentId, threadId |-> threadId, log |-> r.log,
     created |-> r.created, deleted |-> r.deleted, threads |-> r.threads,
     wrapped |-> r.wrapped, out |-> r.out]

Init ==
    /\ server \in {"search", "agent"}
    /\ env \in [EnvNames(server) -> EnvStates]
    /\ client = "unstarted"
    /\ initError = <<>>
    /\ sLast = NoSearchCall
    /\ aLast = NoAgentCall
    /\ agentsCreated = 0
    /\ agentsDeleted = 0
    /\ threadsCreated = 0

\* Module import: the try/except that builds search_client / agent_client.
Startup ==
    /\ client = "unstarted"
    /\ \E sdkOk \in BOOLEAN :
         LET r == InitializeClient(server, env, sdkOk)
         IN /\ client' = r[1]
            /\ initError' = r[2]
    /\ UNCHANGED <<server, env, sLast, aLast, agentsCreated, agentsDeleted,
                   threadsCreated>>

\* The remote service takes part in a call only through the wrapper: with
\* no wrapper there is no remote behaviour to choose.
SearchRemotes == IF client = "none" THEN {NoSearchCall.remote}
                 ELSE RemoteBehaviours

AgentRemotes == IF client = "none" THEN {NoScenario} ELSE Scenarios

\* The process serves one call at a time: a tool runs when no result is
\* waiting to be handed to the host.
Idle == sLast.tool = "none" /\ aLast.tool = "none"

SearchServing == server = "search" /\ client # "unstarted" /\ Idle

KeywordSearch ==
    /\ SearchServing
    /\ \E query \in Queries, top \in Tops, remote \in SearchRemotes :
         sLast' = SearchCall("keyword_search", query, top, remote,
                             KeywordSearchTool(client, query, top, remote))
    /\ UNCHANGED <<server, env, client, initError, aLast, agentsCreated,
                   agentsDeleted, threadsCreated>>

VectorSearch ==
    /\ SearchServing
    /\ \E query \in Queries, top \in Tops, remote \in SearchRemotes :
         sLast' = SearchCall("vector_search", query, top, remote,
                             VectorSearchTool(client, query, top, remote))
    /\ UNCHANGED <<server, env, client, initError, aLast, agentsCreated,
                   agentsDeleted, threadsCreated>>

HybridSearch ==
    /\ SearchServing
    /\ \E query \in Queries, top \in Tops, remote \in SearchRemotes :
         sLast' = SearchCall("hybrid_search", query, top, remote,
                             HybridSearchTool(client, query, top, remote))
    /\ UNCHANGED <<server, env, client, initError, aLast, agentsCreated,
                   agentsDeleted, threadsCreated>>

AgentServing ==
    /\ server = "agent"
    /\ client # "unstarted"
    /\ Idle
    /\ agentsCreated < MaxAgents

\* One call's effect on the server's state: the record of the call and the
\* agents and threads the remote service now holds.
AgentEffect(tool, query, top, sc, r) ==
    /\ aLast' = AgentCallRecord(tool, query, top, agentsCreated + 1,
                                threadsCreated + 1, sc, r)
    /\ agentsCreated' = agentsCreated + r.created
    /\ agentsDeleted' = agentsDeleted + r.deleted
    /\ threadsCreated' = threadsCreated + r.threads

SearchIndex ==
    /\ AgentServing
    /\ \E query \in Queries, top \in Tops, sc \in AgentRemotes :
         AgentEffect("search_index", query, top, sc,
                     SearchIndexTool(client, query, top, agentsCreated + 1,
                                     threadsCreated + 1, sc))
    /\ UNCHANGED <<server, env, client, initError, sLast>>

WebSearch ==
    /\ AgentServing
    /\ \E query \in Queries, sc \in AgentRemotes :
         AgentEffect("web_search", query, 0, sc,
                     WebSearchTool(client, query, agentsCreated + 1,
                                   threadsCreated + 1, sc))
    /\ UNCHANGED <<server, env, client, initError, sLast>>

\* The dispatcher hands the tool's string to the host and waits for the
\* next call.
Respond ==
    /\ ~Idle
    /\ sLast' = NoSearchCall
    /\ aLast' = NoAgentCall
    /\ UNCHANGED <<server, env, client, initError, agentsCreated,
                   agentsDeleted, threadsCreated>>

Next ==
    \/ Startup
    \/ Respond
    \/ KeywordSearch
    \/ VectorSearch
    \/ HybridSearch
    \/ SearchIndex
    \/ WebSearch

Spec == Init /\ [][Next]_vars

\* ------------------------------------------------------------ the claims

SearchCalled == sLast.tool # "none"
AgentCalled == aLast.tool # "none"

\* The operation name each tool puts in its error string.
OperationName(tool) ==
    CASE tool = "keyword_search" -> "keyword search"
      [] tool = "vector_search" -> "vector search"
      [] tool = "hybrid_search" -> "hybrid search"
      [] tool = "search_index" -> "index search"
      [] tool = "web_search" -> "web search"

LogOps(log) == [i \in 1..Len(log) |-> log[i].op]

\* C1: every agent wrapper call that created an agent issues a delete of
\* that same agent before it exits, whether the run succeeds, ends
\* 'failed' or a later step raises; so created agents equal deleted agents
\* after any sequence of completed calls.
C1_DeleteOnEveryExit ==
    /\ (AgentCalled /\ aLast.created = 1) =>
           \E i \in 1..Len(aLast.log) :
               aLast.log[i].op = "delete_agent"
               /\ aLast.log[i].agent = aLast.agentId
    /\ agentsCreated = agentsDeleted

SomeRequiredMissing == \E k \in RequiredVars(server) : Falsy(env, k)

\* C2: when a required environment variable is absent or empty at start,
\* construction fails, the client handle is None, the process goes on
\* serving, and every later tool call returns the server's fixed 'client
\* is not initialized' string without raising and without any remote call.
C2_NotInitializedForever ==
    (client # "unstarted" /\ SomeRequiredMissing) =>
        /\ client = "none"
        /\ initError # <<>>
        /\ SearchCalled =>
               /\ sLast.out = Return(<<"Error: Azure Search client is not initialized. Check server logs for details.">>)
               /\ sLast.requests = <<>>
        /\ AgentCalled =>
               /\ aLast.out = Return(<<"Error: Azure AI Agent client is not initialized. Check server logs for details.">>)
               /\ aLast.log = <<>>
        /\ agentsCreated = 0 /\ threadsCreated = 0
        /\ ENABLED (Respond \/ KeywordSearch \/ WebSearch)

C2_Witness ==
    /\ server = "agent"
    /\ Cardinality({k \in RequiredVars(server) : Falsy(env, k)}) = 1
    /\ env["BING_CONNECTION_NAME"] = "empty"
    /\ aLast.tool = "web_search"
    /\ aLast.out.kind = "return"

\* C3: each of the five tools ends its call by returning a string; when the
\* wrapper method or the renderer raises, the string is 'Error performing
\* <operation>: <fault text>', and the process goes on to the next call.
C3_ToolsAlwaysReturnStrings ==
    /\ SearchCalled =>
           /\ sLast.out.kind = "return"
           /\ sLast.wrapped.kind = "raise" =>
                  sLast.out.value = <<"Error performing ", OperationName(sLast.tool), ": ">>
                                    \o sLast.wrapped.fault
           /\ (sLast.wrapped.kind = "return"
               /\ \E i \in 1..Len(sLast.wrapped.value) :
                      sLast.wrapped.value[i].score.tag = "none") =>
                  sLast.out.value = <<"Error performing ", OperationName(sLast.tool), ": ",
                                      "unsupported format string passed to NoneType.__format__">>
           /\ ENABLED Respond
    /\ AgentCalled =>
           /\ aLast.out.kind = "return"
           /\ aLast.wrapped.kind = "raise" =>
                  aLast.out.value = <<"Error performing ", OperationName(aLast.tool), ": ">>
                                    \o aLast.wrapped.fault
           /\ ENABLED Respond

C3_Witness ==
    /\ sLast.tool = "keyword_search"
    /\ sLast.wrapped.kind = "return"
    /\ Len(sLast.wrapped.value) = 2
    /\ sLast.wrapped.value[2].score.tag = "none"
    /\ sLast.out.value[1] = "Error performing "

RunFailed(call) == call.scenario.status = "failed"

\* C4 as stated: a web_search whose run ends 'failed' with error E returns
\* exactly 'Web search failed: ' followed by E and nothing else.
C4_ToolReturnsBareFailure ==
    (aLast.tool = "web_search" /\ RunFailed(aLast)) =>
        aLast.out = Return(<<"Web search failed: ", aLast.scenario.last_error>>)

\* C4 amended: when the run of a web_search ends 'failed' with error E, the
\* wrapper method does not raise and returns exactly 'Web search failed: '
\* followed by E; the tool returns that text under its '## Bing Web Search
\* Results' heading; a connection that cannot be resolved is a raised
\* fault instead.
C4_RunFailedIsNormalReturn ==
    /\ (aLast.tool = "web_search" /\ RunFailed(aLast)) =>
           /\ aLast.wrapped = Return(<<"Web search failed: ", aLast.scenario.last_error>>)
           /\ aLast.out = Return(<<"## Bing Web Search Results\n\n", "Web search failed: ",
                                   aLast.scenario.last_error>>)
    /\ (aLast.tool = "web_search" /\ aLast.scenario.conn \in {"nothing", "raises"}) =>
           aLast.wrapped.kind = "raise"

C4_Witness ==
    /\ aLast.tool = "web_search"
    /\ aLast.query = "current weather in Paris"
    /\ RunFailed(aLast)
    /\ aLast.scenario.last_error = "rate limited"
    /\ aLast.wrapped.kind = "return"

ExpectedTitle(rec) ==
    CASE rec.title.tag = "missing" -> "Unknown"
      [] rec.title.tag = "none" -> "None"
      [] OTHER -> rec.title.v

\* The places of a token in a text, and the k-th of them.
Places(text, tok) == {i \in 1..Len(text) : text[i] = tok}

KthPlace(text, tok, k) ==
    CHOOSE p \in Places(text, tok) :
        Cardinality({q \in Places(text, tok) : q < p}) = k - 1

RenderedWithoutFault(call) ==
    /\ call.wrapped.kind = "return"
    /\ \A i \in 1..Len(call.wrapped.value) : call.wrapped.value[i].score.tag # "none"

C7_ContentIsBoundedPrefix ==
    (SearchCalled /\ sLast.wrapped.kind = "return") =>
        /\ Len(sLast.wrapped.value) = Len(sLast.response)
        /\ \A i \in 1..Len(sLast.response) :
               LET rec == sLast.response[i]
                   item == sLast.wrapped.value[i]
                   chunk == IF rec.chunk.tag = "missing" THEN <<>> ELSE rec.chunk.v
                   len == IF Len(chunk) <= 1000 THEN Len(chunk) ELSE 1000
               IN /\ Len(item.content) = len
                  /\ Len(item.content) <= 1000
                  /\ \A j \in 1..len : item.content[j] = chunk[j]
                  /\ rec.title.tag = "missing" => item.title = Val("Unknown")
                  /\ rec.title.tag # "missing" => item.title = rec.title
                  /\ rec.score.tag = "missing" => item.score = Val(0)
                  /\ rec.score.tag # "missing" => item.score = rec.score

C7_Witness ==
    /\ sLast.tool = "hybrid_search"
    /\ sLast.wrapped.kind = "return"
    /\ Len(sLast.response) = 3
    /\ sLast.response[1].chunk.tag = "missing"
    /\ sLast.response[1].title.tag = "missing"
    /\ Len(sLast.response[2].chunk.v) = 1001
    /\ Len(sLast.wrapped.value[2].content) = 1000
    /\ Len(sLast.response[3].chunk.v) = 1000

SearchMode(tool) ==
    CASE tool = "keyword_search" -> "Keyword Search"
      [] tool = "vector_search" -> "Vector Search"
      [] tool = "hybrid_search" -> "Hybrid Search"

\* C8: the record-list renderer turns an empty sequence into exactly the
\* sentence 'No results found for your query using <mode>.' with no
\* Markdown heading, and a sequence of n > 0 records into one '## <mode>
\* Results' heading followed by exactly n numbered sections, each ended by
\* a horizontal rule.
C8_RendererShape ==
    (SearchCalled /\ RenderedWithoutFault(sLast)) =>
        LET text == sLast.out.value
            n == Len(sLast.wrapped.value)
            mode == SearchMode(sLast.tool)
        IN IF n = 0
           THEN /\ text = <<"No results found for your query using ", mode, ".">>
                /\ Places(text, "## ") = {}
                /\ Places(text, "### ") = {}
           ELSE /\ SubSeq(text, 1, 4) = <<"## ", mode, " Results\n\n", "### ">>
                /\ Places(text, "## ") = {1}
                /\ Cardinality(Places(text, "### ")) = n
                /\ Cardinality(Places(text, "---\n\n")) = n
                /\ text[Len(text)] = "---\n\n"
                /\ \A p \in Places(text, "### ") : p > 4 => text[p - 1] = "---\n\n"
                /\ \A k \in 1..n : text[KthPlace(text, "### ", k) + 1] = DigitChars[k + 1]

C8_Witness ==
    /\ sLast.tool = "hybrid_search"
    /\ sLast.wrapped = Return(<<>>)
    /\ Len(sLast.remote.matches) = 2
    /\ sLast.out.value[1] = "No results found for your query using "

AllEnvNames == EnvNames("search") \cup EnvNames("agent") \cup {"AZURE_SEARCH_INDEX"}

\* The environment variable names a message mentions.
NamedKeys(msg) == Range(msg) \cap AllEnvNames

\* C9: when construction fails for missing configuration, the error message
\* names every required variable that is absent or empty, each by the name
\* of the variable that was read, and no variable that is present.
C9_NamesExactlyTheMissingKeys ==
    (client = "none" /\ SomeRequiredMissing) =>
        NamedKeys(initError) = {k \in RequiredVars(server) : Falsy(env, k)}

ConnectionOf(tool) ==
    IF tool = "search_index" THEN "my-search-connection" ELSE "my-bing-connection"

\* C10: every agent wrapper call issues its remote operations in the order
\* resolve connection, create agent, create thread, post the query as one
\* user message, run the agent, read the last agent message; when the
\* connection resolves to nothing the call raises 'Connection ... not
\* found' before any agent or thread is created and the tool renders the
\* fault as its error string.
C10_FixedOrderOfRemoteOperations ==
    (AgentCalled /\ client = "ready") =>
        LET log == aLast.log
            body == Take(LogOps(log), 6)
        IN /\ Len(log) >= 1
           /\ body = SubSeq(<<"connections.get", "create_agent", "create_thread",
                              "create_message", "create_and_process_run",
                              "list_messages">>, 1, Len(body))
           /\ log[1].text = <<ConnectionOf(aLast.tool)>>
           /\ Len(log) >= 4 =>
                  /\ log[4].text = <<"user", aLast.query>>
                  /\ log[4].thread = aLast.threadId
           /\ Len(log) >= 5 =>
                  /\ log[5].agent = aLast.agentId
                  /\ log[5].thread = aLast.threadId
           /\ Len(log) >= 6 => log[6].thread = aLast.threadId
           /\ aLast.scenario.conn = "nothing" =>
                  /\ Len(log) = 1
                  /\ aLast.created = 0 /\ aLast.threads = 0
                  /\ aLast.wrapped.kind = "raise"
                  /\ aLast.wrapped.fault =
                         <<"Connection '", ConnectionOf(aLast.tool), "' not found">>
                  /\ aLast.out =
                         Return(<<"Error performing ", OperationName(aLast.tool), ": ",
                                  "Connection '", ConnectionOf(aLast.tool), "' not found">>)

C10_Witness ==
    /\ aLast.tool = "search_index"
    /\ aLast.scenario.conn = "nothing"
    /\ aLast.wrapped.kind = "raise"
    /\ agentsCreated = 2
    /\ threadsCreated = 2

\* How often an operation occurs in the remote operations of a call.
Times(log, name) == Cardinality({i \in 1..Len(log) : log[i].op = name})

\* What holds of the call a step has just made, and of the handle it leaves.
NoRetryAfterStep ==
    /\ (SearchCalled /\ client = "ready") => Len(sLast.requests) = 1
    /\ AgentCalled =>
           /\ Times(aLast.log, "create_agent") <= 1
           /\ Times(aLast.log, "create_thread") <= 1
           /\ Times(aLast.log, "create_and_process_run") <= 1
           /\ Times(aLast.log, "connections.get") <= 1
           /\ aLast.created <= 1
           /\ aLast.threads <= 1

\* C11: no failure is retried: a search tool call with an initialized client
\* issues exactly one remote search request whether it succeeds or fails,
\* an agent tool call creates at most one agent and one thread and triggers
\* at most one run, and no tool call writes the client handle built at
\* start-up.
C11_NoRetryAndHandleKept ==
    [][/\ NoRetryAfterStep'
       /\ agentsCreated' <= agentsCreated + 1
       /\ threadsCreated' <= threadsCreated + 1
       /\ client # "unstarted" => client' = client]_vars

C11_Witness ==
    /\ sLast.tool = "hybrid_search"
    /\ client = "ready"
    /\ sLast.remote.fails
    /\ sLast.wrapped.kind = "raise"
    /\ Len(sLast.requests) = 1

====
